---- MODULE Spec2Model ----
(***************************************************************************)
(* A model of go-tart: the client that drives the `tart` executable.       *)
(*                                                                         *)
(*   Spec      the process engine: Tart.run (main.go), Tart.Run's          *)
(*             readiness scan (run.go) and the calls that chain them       *)
(*             (List, State, Create, Clone, Import, Stop in mgmt.go),      *)
(*             against a child process that writes to OS pipes.            *)
(*   SpecArgs  the argument builders, applied to bounded option sets.      *)
(*   SpecText  the plain-text results of IP and GetConfig.                 *)
(*                                                                         *)
(* Byte strings (captured output, lines) are sequences of one-character    *)
(* strings; command-line arguments are strings built with \o.              *)
(***************************************************************************)
EXTENDS Integers, Sequences, FiniteSets, TLC

VARIABLES
    cfg,      \* t.ConfigDir: "unset" (""), "present" (directory exists), "missing"
    vmState,  \* the hypervisor's state of VM TargetVM: absent/stopped/running/suspended
    call,     \* the API call in progress: [op, name]
    pc,       \* where the calling goroutine is
    inv,      \* the invocation in progress: its arguments, the bytes captured,
              \* which streams reached end-of-file, whether cmd.Wait() returned,
              \* and what run returned
    child,    \* the child process of the invocation
    outPipe,  \* chunks in the child's stdout pipe, unread
    errPipe,  \* chunks in the child's stderr pipe, unread
    rbuf,     \* bufio.Reader's buffered bytes (Run)
    lines,    \* the lines ReadString has returned to Run without error
    spawned,  \* children started so far by this call
    ret,      \* the call's result
    req,      \* SpecArgs: the builder's input
    args,     \* SpecArgs: the argument list built
    raw,      \* SpecText: stdout captured from a successful invocation
    txt,      \* SpecText: the string returned to the caller
    race      \* SpecRace: the two concurrent Run calls, each one's position,
              \* the VMState its State call returned, and its result

vars == <<cfg, vmState, call, pc, inv, child, outPipe, errPipe, rbuf, lines,
          spawned, ret, req, args, raw, txt, race>>

\* ------------------------------------------------------------------ bounds

\* Operations (writes, an early close of stdout) in a child's script.
MaxOps == 3
\* Chunks an OS pipe holds before a write to it blocks.
PipeCap == 1
\* Fields of an options struct set to a non-default value at once.
MaxSet == 2
\* Elements of a repeatable option (Disk, Dir, RemoteNames).
MaxRep == 1
\* Bytes of captured plain-text output.
MaxText == 3

\* --------------------------------------------------------------- sequences

RECURSIVE Flatten(_)
Flatten(ss) == IF ss = <<>> THEN <<>> ELSE Head(ss) \o Flatten(Tail(ss))

RECURSIVE CountOf(_, _)
CountOf(s, x) ==
    IF s = <<>> THEN 0
    ELSE (IF Head(s) = x THEN 1 ELSE 0) + CountOf(Tail(s), x)

SeqsUpTo(S, n) == UNION {[1..k -> S] : k \in 0..n}

\* strings.Contains
Contains(s, sub) ==
    \E i \in 0..(Len(s) - Len(sub)) : SubSeq(s, i + 1, i + Len(sub)) = sub

\* The index of the first "\n" of s, or 0.
NewlineAt(s) ==
    IF \E i \in 1..Len(s) : s[i] = "\n"
    THEN CHOOSE i \in 1..Len(s) : s[i] = "\n" /\ \A j \in 1..(i - 1) : s[j] # "\n"
    ELSE 0

\* ------------------------------------------------- argument builders (pure)

\* if b { args = append(args, f) }
Flag(b, f) == IF b THEN <<f>> ELSE <<>>

\* if v != "" { args = append(args, f, v) }
Val(v, f) == IF v # "" THEN <<f, v>> ELSE <<>>

Digit(d) ==
    CASE d = 0 -> "0" [] d = 1 -> "1" [] d = 2 -> "2" [] d = 3 -> "3"
      [] d = 4 -> "4" [] d = 5 -> "5" [] d = 6 -> "6" [] d = 7 -> "7"
      [] d = 8 -> "8" [] d = 9 -> "9"

\* fmt.Sprintf("%d", n)
RECURSIVE Itoa(_)
Itoa(n) ==
    IF n < 0 THEN "-" \o Itoa(0 - n)
    ELSE IF n < 10 THEN Digit(n)
    ELSE Itoa(n \div 10) \o Digit(n % 10)

\* if n > 0 { args = append(args, f, fmt.Sprintf("%d", n)) }
Num(n, f) == IF n > 0 THEN <<f, Itoa(n)>> ELSE <<>>

\* for _, x := range xs { args = append(args, f, x) }
RECURSIVE Rep(_, _)
Rep(xs, f) == IF xs = <<>> THEN <<>> ELSE <<f, Head(xs)>> \o Rep(Tail(xs), f)

\* The token of one directory mount, as a mutant: the ':' that opens the
\* trailing segment is added to every token.
DirArgTrailingColon(d) ==
    LET a == (IF d.Name # "" THEN d.Name \o ":" ELSE "") \o d.Path
    IN  a \o ":"
          \o (IF d.ReadOnly
              THEN "ro" \o (IF d.Tag # "" THEN "," ELSE "")
              ELSE "")
          \o (IF d.Tag # "" THEN "tag=" \o d.Tag ELSE "")
          \o (IF d.Sync # "" /\ (d.ReadOnly \/ d.Tag # "")
              THEN "sync=" \o d.Sync ELSE "")

\* The token of one directory mount (the body of Run's loop over options.Dir).
DirArg(d) ==
    LET a == (IF d.Name # "" THEN d.Name \o ":" ELSE "") \o d.Path
    IN  IF d.ReadOnly \/ d.Tag # ""
        THEN a \o ":"
               \o (IF d.ReadOnly
                   THEN "ro" \o (IF d.Tag # "" THEN "," ELSE "")
                   ELSE "")
               \o (IF d.Tag # "" THEN "tag=" \o d.Tag ELSE "")
               \o (IF d.Sync # "" THEN "sync=" \o d.Sync ELSE "")
        ELSE a

RECURSIVE DirArgs(_)
DirArgs(ds) ==
    IF ds = <<>> THEN <<>> ELSE <<"--dir", DirArg(Head(ds))>> \o DirArgs(Tail(ds))

\* The flags of Run, in the order Run appends them.
RunFlags(o) ==
    Flag(o.NoGraphics, "--no-graphics")
        \o Flag(o.Serial, "--serial")
        \o Val(o.SerialPath, "--serial-path")
        \o Flag(o.NoAudio, "--no-audio")
        \o Flag(o.NoClipboard, "--no-clipboard")
        \o Flag(o.Recovery, "--recovery")
        \o Flag(o.VNC, "--vnc")
        \o Flag(o.VNCExperimental, "--vnc-experimental")
        \o Rep(o.Disk, "--disk")
        \o Val(o.Rosetta, "--rosetta")
        \o DirArgs(o.Dir)
        \o Val(o.NetBridged, "--net-bridged")
        \o Flag(o.NetSoftnet, "--net-softnet")
        \o Val(o.NetSoftnetAllow, "--net-softnet-allow")
        \o Flag(o.NetHost, "--net-host")
        \o Val(o.RootDiskOpts, "--root-disk-opts")
        \o Flag(o.Suspendable, "--suspendable")
        \o Flag(o.CaptureSystemKeys, "--capture-system-keys")

\* Run's argument list, as a mutant: the name put where the other builders
\* put it, before the flags.
RunArgsNameFirst(name, o) == <<"run", name>> \o RunFlags(o)

\* args := []string{"run"}; the flags; args = append(args, name)
RunArgs(name, o) == <<"run">> \o RunFlags(o) \o <<name>>

SetConfigArgs(name, c) ==
    <<"set", name>>
        \o Num(c.CPUCount, "--cpu")
        \o Num(c.MemorySize, "--memory")
        \o (IF c.Width > 0 /\ c.Height > 0
            THEN <<"--display", Itoa(c.Width) \o "x" \o Itoa(c.Height)>>
            ELSE <<>>)
        \o Flag(c.MACAddress = "random", "--random-mac")

GetConfigArgs(name, format) == <<"get", name>> \o Val(format, "--format")

CreateArgs(name, o) ==
    <<"create", name>>
        \o Val(o.FromIPSW, "--from-ipsw")
        \o Flag(o.Linux, "--linux")
        \o Num(o.DiskSize, "--disk-size")

CloneArgs(sourceName, newName, o) ==
    <<"clone", sourceName, newName>>
        \o Flag(o.Insecure, "--insecure")
        \o Num(o.Concurrency, "--concurrency")

ImportArgs(path, name) == <<"import", path, name>>

\* if path != "" { args = append(args, path) }
ExportArgs(name, path) == <<"export", name>> \o (IF path # "" THEN <<path>> ELSE <<>>)

SuspendArgs(name) == <<"suspend", name>>

StopArgs(name, timeout) == <<"stop", name>> \o Num(timeout, "--timeout")

DeleteArgs(name) == <<"delete", name>>

\* source is "" for a nil *string
ListArgs(source) == <<"list", "--format", "json">> \o Val(source, "--source")

IPArgs(name, wait, resolver) ==
    <<"ip", name>> \o Num(wait, "--wait") \o Val(resolver, "--resolver")

PullArgs(name, insecure, concurrency) ==
    <<"pull", name>> \o Flag(insecure, "--insecure") \o Num(concurrency, "--concurrency")

\* ------------------------------------------------------- the child process

TargetVM == "vm1"

\* What a child does, in order: write a chunk to stdout, write a chunk to
\* stderr, close stdout early. It exits when the script is done.
ScriptOps == {"out", "err", "closeOut"}

\* No write to stdout after closing it, and one close at most.
ValidScript(s) ==
    /\ CountOf(s, "closeOut") <= 1
    /\ \A i, j \in 1..Len(s) : (s[i] = "closeOut" /\ j > i) => s[j] # "out"

Scripts == {s \in SeqsUpTo(ScriptOps, MaxOps) : ValidScript(s)}

OutBytes == <<"a", "b", "c", "d", "e", "f">>
ErrBytes == <<"u", "v", "w", "x", "y", "z">>

\* The chunks of a child read by run: distinct bytes, in order.
PlainOuts(n) == [i \in 1..n |-> <<OutBytes[i]>>]
ErrChunk(i) == <<ErrBytes[i]>>

\* strings.Contains(line, "VM is up")
Marker == <<"V", "M", " ", "i", "s", " ", "u", "p">>

BootLine == <<"b", "o", "o", "t", "i", "n", "g", ".", ".", ".", "\n">>
UpLine == Marker \o <<"\n">>
\* The marker with no line end after it.
UpTail == Marker
\* One marker line written in two pieces.
HalfA == <<"V", "M", " ", "i", "s">>
HalfB == <<" ", "u", "p", "!", "\n">>

WatchChunks == {BootLine, UpLine, UpTail, HalfA, HalfB}

\* A child of run: scripts with their stdout chunks, and an exit status.
PlainPrograms ==
    {[script |-> s, outs |-> PlainOuts(CountOf(s, "out")), code |-> c] :
        s \in Scripts, c \in {0, 1}}

\* A child of Run: what `tart run` prints is drawn from WatchChunks.
WatchPrograms ==
    UNION {{[script |-> s, outs |-> o, code |-> c] :
                o \in [1..CountOf(s, "out") -> WatchChunks], c \in {0, 1}} :
           s \in Scripts}

NoChild ==
    [status |-> "none", script |-> <<>>, outs |-> <<>>, code |-> 0, ip |-> 1,
     nOut |-> 0, nErr |-> 0, outClosed |-> FALSE, errClosed |-> FALSE,
     errSink |-> "null", tartHome |-> FALSE]

\* setTartHome: the error it returns, and whether TART_HOME is set on cmd.Env.
SetTartHome(c) ==
    [err |-> (c = "missing"), env |-> (c = "present")]

\* cmd.Start() succeeded. errSink is "pipe" after cmd.StderrPipe(), and "null"
\* when cmd.Stderr is left nil (os/exec connects it to the null device).
Spawned(prog, sink) ==
    [status |-> "running", script |-> prog.script, outs |-> prog.outs,
     code |-> prog.code, ip |-> 1, nOut |-> 0, nErr |-> 0,
     outClosed |-> FALSE, errClosed |-> FALSE, errSink |-> sink,
     tartHome |-> SetTartHome(cfg).env]

NextOp(ch) == IF ch.ip <= Len(ch.script) THEN ch.script[ch.ip] ELSE "exit"

\* write(1, chunk): blocks while the pipe is full.
ChildWriteOut ==
    /\ child.status = "running"
    /\ NextOp(child) = "out"
    /\ Len(outPipe) < PipeCap
    /\ outPipe' = Append(outPipe, child.outs[child.nOut + 1])
    /\ child' = [child EXCEPT !.ip = @ + 1, !.nOut = @ + 1]
    /\ UNCHANGED <<cfg, vmState, call, pc, inv, errPipe, rbuf, lines, spawned,
                   ret, req, args, raw, txt, race>>

\* write(2, chunk): blocks while the pipe is full; never on the null device.
ChildWriteErr ==
    /\ child.status = "running"
    /\ NextOp(child) = "err"
    /\ \/ /\ child.errSink = "pipe"
          /\ Len(errPipe) < PipeCap
          /\ errPipe' = Append(errPipe, ErrChunk(child.nErr + 1))
       \/ /\ child.errSink = "null"
          /\ errPipe' = errPipe
    /\ child' = [child EXCEPT !.ip = @ + 1, !.nErr = @ + 1]
    /\ UNCHANGED <<cfg, vmState, call, pc, inv, outPipe, rbuf, lines, spawned,
                   ret, req, args, raw, txt, race>>

\* close(1) before exiting.
ChildCloseOut ==
    /\ child.status = "running"
    /\ NextOp(child) = "closeOut"
    /\ child' = [child EXCEPT !.ip = @ + 1, !.outClosed = TRUE]
    /\ UNCHANGED <<cfg, vmState, call, pc, inv, outPipe, errPipe, rbuf, lines,
                   spawned, ret, req, args, raw, txt, race>>

\* exit(code): the kernel closes the write ends of both pipes.
ChildExit ==
    /\ child.status = "running"
    /\ NextOp(child) = "exit"
    /\ child' = [child EXCEPT !.status = "exited", !.outClosed = TRUE,
                              !.errClosed = TRUE]
    /\ UNCHANGED <<cfg, vmState, call, pc, inv, outPipe, errPipe, rbuf, lines,
                   spawned, ret, req, args, raw, txt, race>>

\* -------------------------------------------------- results and the listing

Ok(out) == [ok |-> TRUE, err |-> "none", out |-> out, stderr |-> <<>>]
Err(kind, text) == [ok |-> FALSE, err |-> kind, out |-> <<>>, stderr |-> text]
Pending == [ok |-> FALSE, err |-> "pending", out |-> <<>>, stderr |-> <<>>]

ZeroRunOptions ==
    [NoGraphics |-> FALSE, Serial |-> FALSE, SerialPath |-> "", NoAudio |-> FALSE,
     NoClipboard |-> FALSE, Recovery |-> FALSE, VNC |-> FALSE,
     VNCExperimental |-> FALSE, Disk |-> <<>>, Rosetta |-> "", Dir |-> <<>>,
     NetBridged |-> "", NetSoftnet |-> FALSE, NetSoftnetAllow |-> "",
     NetHost |-> FALSE, RootDiskOpts |-> "", Suspendable |-> FALSE,
     CaptureSystemKeys |-> FALSE]
ZeroCreateOptions == [FromIPSW |-> "", Linux |-> FALSE, DiskSize |-> 0]
ZeroCloneOptions == [Insecure |-> FALSE, Concurrency |-> 0]

\* What `tart list --format json` describes: one VM that is always there, and
\* TargetVM unless it is absent.
Listing ==
    <<[Name |-> "base", State |-> "stopped"]>>
        \o (IF vmState = "absent" THEN <<>>
            ELSE <<[Name |-> TargetVM, State |-> vmState]>>)

\* json.Unmarshal(output, &vms) in List. Empty output is not JSON; the output
\* of a `tart list` that exited 0 is otherwise the JSON of Listing.
DecodeList(out) ==
    IF out = <<>> THEN [ok |-> FALSE, vms |-> <<>>] ELSE [ok |-> TRUE, vms |-> Listing]

\* for _, existingVM := range localVMs { if existingVM.Name == name ... }
Taken(vms, name) == \E i \in 1..Len(vms) : vms[i].Name = name

\* State's loop: the first record of that name, or the zero VMState.
StateOf(vms, name) ==
    IF Taken(vms, name)
    THEN vms[CHOOSE i \in 1..Len(vms) :
                 vms[i].Name = name /\ \A j \in 1..(i - 1) : vms[j].Name # name]
    ELSE [Name |-> "", State |-> ""]

NewInv(a) ==
    [args |-> a, out |-> <<>>, err |-> <<>>, outEOF |-> FALSE, errEOF |-> FALSE,
     waited |-> FALSE, res |-> Pending]

\* The arguments of the command the call is for, once its check has passed.
OpArgs(c) ==
    CASE c.op = "Create" -> CreateArgs(c.name, ZeroCreateOptions)
      [] c.op = "Clone" -> CloneArgs("base", c.name, ZeroCloneOptions)
      [] c.op = "Import" -> ImportArgs("/tmp/vm.tvm", c.name)
      [] c.op = "Stop" -> StopArgs(c.name, 0)
      [] c.op = "Run" -> RunArgs(c.name, ZeroRunOptions)

\* Create, Clone, Import and Run begin with a listing; Stop runs its command.
FirstArgs(c) == IF c.op = "Stop" THEN OpArgs(c) ELSE ListArgs("")

\* The call returns r to its caller.
Finish(r) ==
    /\ pc' = "done"
    /\ ret' = r
    /\ inv' = inv

\* After the listing: the checks of Create, Clone, Import (name taken) and of
\* Run (already running, then not found), and the next invocation.
AfterList(vms) ==
    IF call.op = "Run"
    THEN LET s == StateOf(vms, call.name)
         IN  IF s.State = "running" THEN Finish(Err("running", <<>>))
             ELSE IF s.Name # call.name THEN Finish(Err("not-found", <<>>))
             ELSE /\ pc' = "wstart"
                  /\ inv' = NewInv(OpArgs(call))
                  /\ ret' = ret
    ELSE IF Taken(vms, call.name) THEN Finish(Err("exists", <<>>))
         ELSE /\ pc' = "start"
              /\ inv' = NewInv(OpArgs(call))
              /\ ret' = ret

\* run returns r to the method that called it.
Return(r) ==
    /\ pc' = "ret"
    /\ inv' = [inv EXCEPT !.res = r]
    /\ ret' = ret

\* The method that called run goes on: List decodes the listing and the call
\* makes its check; every other method returns what run returned.
CallContinue ==
    /\ pc = "ret"
    /\ IF inv.args[1] = "list"
       THEN IF ~inv.res.ok THEN Finish(inv.res)
            ELSE LET d == DecodeList(inv.res.out)
                 IN  IF ~d.ok THEN Finish(Err("decode", <<>>))
                     ELSE AfterList(d.vms)
       ELSE Finish(inv.res)
    /\ UNCHANGED <<cfg, vmState, call, child, outPipe, errPipe, rbuf, lines,
                   spawned, req, args, raw, txt, race>>

\* ------------------------------------------------------------ Tart.run

\* exec.Command, setTartHome (its error dropped), both pipes, cmd.Start().
RunStart ==
    /\ pc = "start"
    /\ \E prog \in PlainPrograms :
          child' = Spawned(prog, "pipe")
    /\ spawned' = spawned + 1
    /\ outPipe' = <<>>
    /\ errPipe' = <<>>
    /\ pc' = "readOut"
    /\ UNCHANGED <<cfg, vmState, call, inv, rbuf, lines, ret, req, args, raw, txt, race>>

\* cmd.StdoutPipe(), cmd.StderrPipe() or cmd.Start() fails: no child.
RunStartFail ==
    /\ pc = "start"
    /\ \E kind \in {"pipe", "launch"} : Return(Err(kind, <<>>))
    /\ child' = NoChild
    /\ UNCHANGED <<cfg, vmState, call, outPipe, errPipe, rbuf, lines,
                   spawned, req, args, raw, txt, race>>

\* io.ReadAll(stdoutPipe): one Read that returns bytes.
ReadOut ==
    /\ pc = "readOut"
    /\ outPipe # <<>>
    /\ inv' = [inv EXCEPT !.out = @ \o Head(outPipe)]
    /\ outPipe' = Tail(outPipe)
    /\ UNCHANGED <<cfg, vmState, call, pc, child, errPipe, rbuf, lines, spawned,
                   ret, req, args, raw, txt, race>>

\* As a mutant: the wait follows stdout's end, stderr is not read.
ReadOutEOFThenWait ==
    /\ pc = "readOut"
    /\ outPipe = <<>>
    /\ child.outClosed
    /\ inv' = [inv EXCEPT !.outEOF = TRUE]
    /\ pc' = "wait"
    /\ UNCHANGED <<cfg, vmState, call, child, outPipe, errPipe, rbuf, lines,
                   spawned, ret, req, args, raw, txt, race>>

\* io.ReadAll(stdoutPipe): the Read that returns io.EOF; stderr is next.
ReadOutEOF ==
    /\ pc = "readOut"
    /\ outPipe = <<>>
    /\ child.outClosed
    /\ inv' = [inv EXCEPT !.outEOF = TRUE]
    /\ pc' = "readErr"
    /\ UNCHANGED <<cfg, vmState, call, child, outPipe, errPipe, rbuf, lines,
                   spawned, ret, req, args, raw, txt, race>>

\* io.ReadAll(stdoutPipe) returns an error: run returns it, with no wait.
ReadOutFail ==
    /\ pc = "readOut"
    /\ Return(Err("read", <<>>))
    /\ UNCHANGED <<cfg, vmState, call, child, outPipe, errPipe, rbuf, lines,
                   spawned, req, args, raw, txt, race>>

\* io.ReadAll(stderrPipe): one Read that returns bytes.
ReadErr ==
    /\ pc = "readErr"
    /\ errPipe # <<>>
    /\ inv' = [inv EXCEPT !.err = @ \o Head(errPipe)]
    /\ errPipe' = Tail(errPipe)
    /\ UNCHANGED <<cfg, vmState, call, pc, child, outPipe, rbuf, lines, spawned,
                   ret, req, args, raw, txt, race>>

\* io.ReadAll(stderrPipe): the Read that returns io.EOF; cmd.Wait() is next.
ReadErrEOF ==
    /\ pc = "readErr"
    /\ errPipe = <<>>
    /\ child.errClosed
    /\ inv' = [inv EXCEPT !.errEOF = TRUE]
    /\ pc' = "wait"
    /\ UNCHANGED <<cfg, vmState, call, child, outPipe, errPipe, rbuf, lines,
                   spawned, ret, req, args, raw, txt, race>>

\* io.ReadAll(stderrPipe) returns an error: run returns it, with no wait.
ReadErrFail ==
    /\ pc = "readErr"
    /\ Return(Err("read", <<>>))
    /\ UNCHANGED <<cfg, vmState, call, child, outPipe, errPipe, rbuf, lines,
                   spawned, req, args, raw, txt, race>>

\* What run returns once cmd.Wait() has returned, as a mutant: the output is
\* returned whatever the exit status.
WaitResultAnyStatus(code, out, err) == Ok(out)

\* What run returns once cmd.Wait() has returned.
WaitResult(code, out, err) ==
    IF code # 0 THEN Err("exit", err) ELSE Ok(out)

\* cmd.Wait() returns: the child has exited.
WaitReturn ==
    /\ pc = "wait"
    /\ child.status = "exited"
    /\ pc' = "ret"
    /\ inv' = [inv EXCEPT !.waited = TRUE,
                          !.res = WaitResult(child.code, inv.out, inv.err)]
    /\ ret' = ret
    /\ UNCHANGED <<cfg, vmState, call, child, outPipe, errPipe, rbuf, lines,
                   spawned, req, args, raw, txt, race>>

\* ------------------------------------------------- Tart.Run after its checks

\* exec.Command, setTartHome (its error dropped), cmd.StdoutPipe(),
\* cmd.Start(); stderr is left on the null device.
WatchStart ==
    /\ pc = "wstart"
    /\ \E prog \in WatchPrograms :
          child' = Spawned(prog, "null")
    /\ spawned' = spawned + 1
    /\ outPipe' = <<>>
    /\ errPipe' = <<>>
    /\ rbuf' = <<>>
    /\ lines' = <<>>
    /\ pc' = "scan"
    /\ UNCHANGED <<cfg, vmState, call, inv, ret, req, args, raw, txt, race>>

WatchStartFail ==
    /\ pc = "wstart"
    /\ \E kind \in {"pipe", "launch"} : Finish(Err(kind, <<>>))
    /\ child' = NoChild
    /\ UNCHANGED <<cfg, vmState, call, outPipe, errPipe, rbuf, lines,
                   spawned, req, args, raw, txt, race>>

\* The readiness test, as a mutant: the line must be the marker alone.
IsReadyExact(line) == line = Marker \o <<"\n">>

\* strings.Contains(line, "VM is up")
IsReady(line) == Contains(line, Marker)

\* reader.ReadString('\n') returns a line: the buffer holds a line end.
ScanLine ==
    /\ pc = "scan"
    /\ NewlineAt(rbuf) > 0
    /\ LET n == NewlineAt(rbuf)
           line == SubSeq(rbuf, 1, n)
       IN  /\ rbuf' = SubSeq(rbuf, n + 1, Len(rbuf))
           /\ lines' = Append(lines, line)
           /\ IF IsReady(line) THEN Finish(Ok(<<>>))
              ELSE UNCHANGED <<pc, ret, inv>>
    /\ UNCHANGED <<cfg, vmState, call, child, outPipe, errPipe, spawned, req,
                   args, raw, txt, race>>

\* reader.ReadString('\n') fills its buffer from the pipe.
ScanFill ==
    /\ pc = "scan"
    /\ NewlineAt(rbuf) = 0
    /\ outPipe # <<>>
    /\ rbuf' = rbuf \o Head(outPipe)
    /\ outPipe' = Tail(outPipe)
    /\ UNCHANGED <<cfg, vmState, call, pc, inv, child, errPipe, lines, spawned,
                   ret, req, args, raw, txt, race>>

\* reader.ReadString('\n') returns what is buffered and io.EOF: break.
ScanEOF ==
    /\ pc = "scan"
    /\ NewlineAt(rbuf) = 0
    /\ outPipe = <<>>
    /\ child.outClosed
    /\ rbuf' = <<>>
    /\ inv' = [inv EXCEPT !.outEOF = TRUE]
    /\ pc' = "wwait"
    /\ UNCHANGED <<cfg, vmState, call, child, outPipe, errPipe, lines,
                   spawned, ret, req, args, raw, txt, race>>

\* reader.ReadString('\n') returns another error: Run returns it.
ScanFail ==
    /\ pc = "scan"
    /\ NewlineAt(rbuf) = 0
    /\ Finish(Err("read", <<>>))
    /\ UNCHANGED <<cfg, vmState, call, child, outPipe, errPipe, rbuf, lines,
                   spawned, req, args, raw, txt, race>>

\* What Run returns once cmd.Wait() has returned, as a mutant: end-of-file
\* without the marker is itself the failure.
WatchResultEOFIsError(code) == Err("exit", <<>>)

\* What Run returns once cmd.Wait() has returned.
WatchResult(code) == IF code # 0 THEN Err("exit", <<>>) ELSE Ok(<<>>)

\* cmd.Wait() returns: the child has exited.
WatchWait ==
    /\ pc = "wwait"
    /\ child.status = "exited"
    /\ pc' = "done"
    /\ ret' = WatchResult(child.code)
    /\ inv' = [inv EXCEPT !.waited = TRUE]
    /\ UNCHANGED <<cfg, vmState, call, child, outPipe, errPipe, rbuf, lines,
                   spawned, req, args, raw, txt, race>>

\* ------------------------------------------------------------------- Spec

Ops == {"Create", "Clone", "Import", "Run", "Stop"}

\* No concurrent Run calls are in progress.
NoRace == [vm0 |-> "", by |-> <<>>]

Idle ==
    /\ race = NoRace
    /\ req = [op |-> "none"]
    /\ args = <<>>
    /\ raw = <<>>
    /\ txt = <<>>

Init ==
    /\ cfg \in {"unset", "present", "missing"}
    /\ vmState \in {"absent", "stopped", "running", "suspended"}
    /\ call \in [op : Ops, name : {TargetVM}]
    /\ pc = "start"
    /\ inv = NewInv(FirstArgs(call))
    /\ child = NoChild
    /\ outPipe = <<>>
    /\ errPipe = <<>>
    /\ rbuf = <<>>
    /\ lines = <<>>
    /\ spawned = 0
    /\ ret = Pending
    /\ Idle

Next ==
    \/ RunStart \/ RunStartFail
    \/ ReadOut \/ ReadOutEOF \/ ReadOutFail
    \/ ReadErr \/ ReadErrEOF \/ ReadErrFail
    \/ WaitReturn \/ CallContinue
    \/ WatchStart \/ WatchStartFail
    \/ ScanLine \/ ScanFill \/ ScanEOF \/ ScanFail
    \/ WatchWait
    \/ ChildWriteOut \/ ChildWriteErr \/ ChildCloseOut \/ ChildExit

Spec == Init /\ [][Next]_vars

\* --------------------------------------------------------------- SpecArgs

Names == {"vm1", "vm2"}
Ints == {-1, 0, 7, 30}

DirMounts ==
    [Name : {"", "shared"}, Path : {"/tmp/x"}, ReadOnly : BOOLEAN,
     Sync : {"", "rw"}, Tag : {"", "t1"}]

RunFields ==
    {"NoGraphics", "Serial", "SerialPath", "NoAudio", "NoClipboard", "Recovery",
     "VNC", "VNCExperimental", "Disk", "Rosetta", "Dir", "NetBridged",
     "NetSoftnet", "NetSoftnetAllow", "NetHost", "RootDiskOpts", "Suspendable",
     "CaptureSystemKeys"}

NonEmptySeqs(S, n) == SeqsUpTo(S, n) \ {<<>>}

\* RunOptions with the fields of `on` set, the others at their zero value.
RunOptionsWith(on, disk, dir) ==
    [NoGraphics |-> "NoGraphics" \in on,
     Serial |-> "Serial" \in on,
     SerialPath |-> IF "SerialPath" \in on THEN "/tmp/serial" ELSE "",
     NoAudio |-> "NoAudio" \in on,
     NoClipboard |-> "NoClipboard" \in on,
     Recovery |-> "Recovery" \in on,
     VNC |-> "VNC" \in on,
     VNCExperimental |-> "VNCExperimental" \in on,
     Disk |-> disk,
     Rosetta |-> IF "Rosetta" \in on THEN "rosetta" ELSE "",
     Dir |-> dir,
     NetBridged |-> IF "NetBridged" \in on THEN "en0" ELSE "",
     NetSoftnet |-> "NetSoftnet" \in on,
     NetSoftnetAllow |-> IF "NetSoftnetAllow" \in on THEN "10.0.0.0/8" ELSE "",
     NetHost |-> "NetHost" \in on,
     RootDiskOpts |-> IF "RootDiskOpts" \in on THEN "ro" ELSE "",
     Suspendable |-> "Suspendable" \in on,
     CaptureSystemKeys |-> "CaptureSystemKeys" \in on]

\* The requests the builders are applied to: every single-object command,
\* with at most MaxSet of Run's options set at once.
IsRequest(r) ==
    \/ \E n \in Names, on \in SUBSET RunFields :
          /\ Cardinality(on) <= MaxSet
          /\ \E dk \in (IF "Disk" \in on THEN NonEmptySeqs({"d.img"}, MaxRep)
                        ELSE {<<>>}),
                dr \in (IF "Dir" \in on THEN NonEmptySeqs(DirMounts, MaxRep)
                        ELSE {<<>>}) :
                r = [op |-> "Run", name |-> n, o |-> RunOptionsWith(on, dk, dr)]
    \/ \E n \in Names,
          o \in [FromIPSW : {"", "latest"}, Linux : BOOLEAN, DiskSize : Ints] :
          r = [op |-> "Create", name |-> n, o |-> o]
    \/ \E n \in Names, t \in Ints :
          r = [op |-> "Stop", name |-> n, o |-> [timeout |-> t]]
    \/ \E n \in Names,
          c \in [CPUCount : {-1, 0, 4}, MemorySize : {0, 8192},
                 Width : {0, 1024}, Height : {0, 768},
                 MACAddress : {"", "random", "aa:bb"}] :
          r = [op |-> "SetConfig", name |-> n, o |-> c]
    \/ \E n \in Names, f \in {"", "json"} :
          r = [op |-> "GetConfig", name |-> n, o |-> [format |-> f]]
    \/ \E n \in Names, o \in [wait : Ints, resolver : {"", "dhcp"}] :
          r = [op |-> "IP", name |-> n, o |-> o]
    \/ \E n \in Names, o \in [insecure : BOOLEAN, concurrency : Ints] :
          r = [op |-> "Pull", name |-> n, o |-> o]
    \/ \E n \in Names, q \in {"", "/tmp/out.tvm"} :
          r = [op |-> "Export", name |-> n, o |-> [path |-> q]]
    \/ \E n \in Names : r = [op |-> "Suspend", name |-> n, o |-> [none |-> TRUE]]
    \/ \E n \in Names : r = [op |-> "Delete", name |-> n, o |-> [none |-> TRUE]]

ProcIdle ==
    /\ cfg = "unset"
    /\ vmState = "absent"
    /\ call = [op |-> "none", name |-> ""]
    /\ inv = NewInv(<<>>)
    /\ child = NoChild
    /\ outPipe = <<>>
    /\ errPipe = <<>>
    /\ rbuf = <<>>
    /\ lines = <<>>
    /\ spawned = 0
    /\ ret = Pending
    /\ race = NoRace

InitArgs ==
    /\ ProcIdle
    /\ pc = "build"
    /\ IsRequest(req)
    /\ args = <<>>
    /\ raw = <<>>
    /\ txt = <<>>

\* The builder of req.op makes the argument list.
Built(a) ==
    /\ pc = "build"
    /\ args' = a
    /\ pc' = "built"
    /\ UNCHANGED <<cfg, vmState, call, inv, child, outPipe, errPipe, rbuf, lines,
                   spawned, ret, req, raw, txt, race>>

BuildRun == req.op = "Run" /\ Built(RunArgs(req.name, req.o))
BuildCreate == req.op = "Create" /\ Built(CreateArgs(req.name, req.o))
BuildStop == req.op = "Stop" /\ Built(StopArgs(req.name, req.o.timeout))
BuildSetConfig == req.op = "SetConfig" /\ Built(SetConfigArgs(req.name, req.o))
BuildGetConfig == req.op = "GetConfig" /\ Built(GetConfigArgs(req.name, req.o.format))
BuildIP == req.op = "IP" /\ Built(IPArgs(req.name, req.o.wait, req.o.resolver))
BuildPull == req.op = "Pull" /\ Built(PullArgs(req.name, req.o.insecure, req.o.concurrency))
BuildExport == req.op = "Export" /\ Built(ExportArgs(req.name, req.o.path))
BuildSuspend == req.op = "Suspend" /\ Built(SuspendArgs(req.name))
BuildDelete == req.op = "Delete" /\ Built(DeleteArgs(req.name))

NextArgs ==
    \/ BuildRun \/ BuildCreate \/ BuildStop \/ BuildSetConfig \/ BuildGetConfig
    \/ BuildIP \/ BuildPull \/ BuildExport \/ BuildSuspend \/ BuildDelete

SpecArgs == InitArgs /\ [][NextArgs]_vars

\* --------------------------------------------------------------- SpecText

\* unicode.IsSpace, on the bytes the model draws from.
IsSpace(c) == c \in {" ", "\t", "\n", "\r", "\f"}

RECURSIVE TrimLeft(_)
TrimLeft(s) ==
    IF s # <<>> /\ IsSpace(Head(s)) THEN TrimLeft(Tail(s)) ELSE s

RECURSIVE TrimRight(_)
TrimRight(s) ==
    IF s # <<>> /\ IsSpace(s[Len(s)]) THEN TrimRight(SubSeq(s, 1, Len(s) - 1)) ELSE s

\* strings.TrimSpace
TrimSpace(s) == TrimRight(TrimLeft(s))

TextBytes == {" ", "\n", "\t", "a"}

InitText ==
    /\ ProcIdle
    /\ pc = "text"
    /\ req \in {[op |-> "IP"], [op |-> "GetConfig"]}
    /\ args = <<>>
    /\ raw \in SeqsUpTo(TextBytes, MaxText)
    /\ txt = <<>>

\* What IP returns for the output `out` of a successful run.
IPText(out) == TrimSpace(out)

\* What GetConfig returns for the output `out` of a successful run.
GetConfigText(out) == out

\* IP: run succeeded with output raw.
IPReturn ==
    /\ pc = "text"
    /\ req.op = "IP"
    /\ txt' = IPText(raw)
    /\ pc' = "done"
    /\ UNCHANGED <<cfg, vmState, call, inv, child, outPipe, errPipe, rbuf, lines,
                   spawned, ret, req, args, raw, race>>

\* GetConfig: run succeeded with output raw.
GetConfigReturn ==
    /\ pc = "text"
    /\ req.op = "GetConfig"
    /\ txt' = GetConfigText(raw)
    /\ pc' = "done"
    /\ UNCHANGED <<cfg, vmState, call, inv, child, outPipe, errPipe, rbuf, lines,
                   spawned, ret, req, args, raw, race>>

NextText == IPReturn \/ GetConfigReturn

SpecText == InitText /\ [][NextText]_vars

\* --------------------------------------------------------------- SpecRace
\* Two goroutines call Run(TargetVM, RunOptions{}) on one *Tart. Nothing in
\* Run, State, List or run takes a lock, so the steps of the two calls
\* interleave freely. The hypervisor's listing reports TargetVM as running from
\* the moment a `tart run` child for it has been started.

Callers == {1, 2}

\* A Run call that has not begun.
RaceCaller == [pc |-> "state", s |-> [Name |-> "", State |-> ""],
               ran |-> FALSE, ret |-> Pending]

\* Caller c moves to position p.
RaceAt(c, p) == race' = [race EXCEPT !.by[c].pc = p]

\* Caller c's Run returns r.
RaceFinish(c, r) == race' = [race EXCEPT !.by[c].pc = "done", !.by[c].ret = r]

RaceRest ==
    UNCHANGED <<cfg, call, pc, inv, child, outPipe, errPipe, rbuf, lines,
                spawned, ret, req, args, raw, txt>>

\* Run calls State, State calls List, List calls run, and run starts
\* `tart list --format json`.
RaceState(c) ==
    /\ race.by[c].pc = "state"
    /\ RaceAt(c, "listing")
    /\ UNCHANGED vmState
    /\ RaceRest

\* The listing fails: `tart list` does not start, exits non-zero, or prints
\* what json.Unmarshal rejects. Run returns "failed to get VM state".
RaceStateFail(c) ==
    /\ race.by[c].pc \in {"state", "listing"}
    /\ \E kind \in {"launch", "exit", "decode"} :
          /\ kind = "launch" <=> race.by[c].pc = "state"
          /\ RaceFinish(c, Err(kind, <<>>))
    /\ UNCHANGED vmState
    /\ RaceRest

\* `tart list` reads the hypervisor's state and exits 0; run returns its
\* output, List decodes it, and State returns TargetVM's record to Run.
RaceListed(c) ==
    /\ race.by[c].pc = "listing"
    /\ race' = [race EXCEPT !.by[c].pc = "check",
                            !.by[c].s = StateOf(Listing, TargetVM)]
    /\ UNCHANGED vmState
    /\ RaceRest

\* Run's two checks of the VMState that State returned.
RaceCheck(c) ==
    /\ race.by[c].pc = "check"
    /\ LET s == race.by[c].s
       IN  IF s.State = "running" THEN RaceFinish(c, Err("running", <<>>))
           ELSE IF s.Name # TargetVM THEN RaceFinish(c, Err("not-found", <<>>))
           ELSE RaceAt(c, "wstart")
    /\ UNCHANGED vmState
    /\ RaceRest

\* Run builds the arguments and cmd.Start() starts `tart run`; from now on the
\* hypervisor reports TargetVM as running.
RaceWatchStart(c) ==
    /\ race.by[c].pc = "wstart"
    /\ race' = [race EXCEPT !.by[c].pc = "scan", !.by[c].ran = TRUE]
    /\ vmState' = "running"
    /\ RaceRest

\* StdoutPipe() or cmd.Start() fails.
RaceWatchStartFail(c) ==
    /\ race.by[c].pc = "wstart"
    /\ \E kind \in {"pipe", "launch"} : RaceFinish(c, Err(kind, <<>>))
    /\ UNCHANGED vmState
    /\ RaceRest

\* Run's loop over the child's lines ends: a line holds the marker, a read
\* fails, or the stream ends and cmd.Wait() gives the exit status.
RaceScan(c) ==
    /\ race.by[c].pc = "scan"
    /\ \/ RaceFinish(c, Ok(<<>>))
       \/ RaceFinish(c, Err("read", <<>>))
       \/ \E code \in {0, 1} : RaceFinish(c, WatchResult(code))
    /\ UNCHANGED vmState
    /\ RaceRest

InitRace ==
    /\ cfg = "unset"
    /\ vmState \in {"absent", "stopped", "running", "suspended"}
    /\ race = [vm0 |-> vmState, by |-> [c \in Callers |-> RaceCaller]]
    /\ call = [op |-> "Run", name |-> TargetVM]
    /\ pc = "race"
    /\ inv = NewInv(<<>>)
    /\ child = NoChild
    /\ outPipe = <<>>
    /\ errPipe = <<>>
    /\ rbuf = <<>>
    /\ lines = <<>>
    /\ spawned = 0
    /\ ret = Pending
    /\ req = [op |-> "none"]
    /\ args = <<>>
    /\ raw = <<>>
    /\ txt = <<>>

NextRace ==
    \E c \in Callers :
        \/ RaceState(c) \/ RaceStateFail(c) \/ RaceListed(c) \/ RaceCheck(c)
        \/ RaceWatchStart(c) \/ RaceWatchStartFail(c) \/ RaceScan(c)

SpecRace == InitRace /\ [][NextRace]_vars

\* ================================================================= claims

\* Everything the child has written to stdout and to stderr so far.
AllOut(ch) == Flatten(SubSeq(ch.outs, 1, ch.nOut))
AllErr(ch) == Flatten([i \in 1..ch.nErr |-> ErrChunk(i)])

RunBlockedOnStdout == pc = "readOut" /\ outPipe = <<>> /\ ~child.outClosed
RunBlockedOnStderr == pc = "readErr" /\ errPipe = <<>> /\ ~child.errClosed
ChildBlockedOnStderr ==
    /\ child.status = "running"
    /\ NextOp(child) = "err"
    /\ child.errSink = "pipe"
    /\ Len(errPipe) >= PipeCap
ChildBlockedOnStdout ==
    /\ child.status = "running"
    /\ NextOp(child) = "out"
    /\ Len(outPipe) >= PipeCap

\* C1: run drains stdout and stderr concurrently: there is no reachable state
\* in which the child is blocked writing to one pipe while run is blocked
\* reading the other.
C1_NoPipeDeadlock ==
    /\ ~(RunBlockedOnStdout /\ ChildBlockedOnStderr)
    /\ ~(RunBlockedOnStderr /\ ChildBlockedOnStdout)

\* A line containing the marker has been read from the child's stdout.
MarkerRead == \E i \in 1..Len(lines) : Contains(lines[i], Marker)

\* C2: in Run, once a line containing "VM is up" has been read, Run has
\* returned success: that line is the last one read, no end-of-file was
\* awaited and cmd.Wait() was not called.
C2_ReturnsOnMarker ==
    (call.op = "Run" /\ MarkerRead) =>
        /\ pc = "done"
        /\ ret = Ok(<<>>)
        /\ Contains(lines[Len(lines)], Marker)
        /\ \A i \in 1..(Len(lines) - 1) : ~Contains(lines[i], Marker)
        /\ ~inv.outEOF
        /\ ~inv.waited

\* Run has returned success on "booting...", "VM is up" while the child is
\* running with its stdout open.
C2_Witness ==
    /\ call.op = "Run"
    /\ lines = <<BootLine, UpLine>>
    /\ pc = "done"
    /\ ret.ok
    /\ child.status = "running"
    /\ ~child.outClosed

\* C3: in Run, when stdout reaches end-of-file with no marker line seen, Run
\* waits for the exit and returns success exactly when the status is zero,
\* and the exit error otherwise.
C3_EOFGivesExitStatus ==
    (call.op = "Run" /\ inv.args[1] = "run" /\ inv.outEOF) =>
        /\ ~MarkerRead
        /\ pc \in {"wwait", "done"}
        /\ pc = "done" =>
              /\ inv.waited
              /\ child.status = "exited"
              /\ ret.ok <=> child.code = 0
              /\ ret.ok => ret = Ok(<<>>)
              /\ ~ret.ok => ret.err = "exit"

\* Run read a line without the marker, then end-of-file, and returned success.
C3_Witness ==
    /\ call.op = "Run"
    /\ inv.args[1] = "run"
    /\ inv.outEOF
    /\ lines # <<>>
    /\ pc = "done"
    /\ ret.ok

RunOutcomeZero ==
    /\ child.status = "exited"
    /\ child.code = 0
    /\ inv.res = Ok(AllOut(child))
RunOutcomeNonZero ==
    /\ child.status = "exited"
    /\ child.code # 0
    /\ inv.res = Err("exit", AllErr(child))
RunOutcomeNoLaunch ==
    /\ child.status = "none"
    /\ inv.res \in {Err("launch", <<>>), Err("pipe", <<>>)}
    /\ ~inv.waited
RunOutcomeReadError ==
    /\ child.status # "none"
    /\ inv.res = Err("read", <<>>)
    /\ ~(inv.outEOF /\ inv.errEOF)
    /\ ~inv.waited

\* C4, as claimed: when run returns, the child exited zero and run returns
\* the complete stdout, or it exited non-zero and run returns an error with
\* the stderr text, or it was not launched and run returns a launch error.
C4_ThreeOutcomes ==
    pc = "ret" => (RunOutcomeZero \/ RunOutcomeNonZero \/ RunOutcomeNoLaunch)

\* C4, amended: when run returns, exactly one of four outcomes holds: the
\* three claimed (the first two after both streams were read to end-of-file
\* and the wait returned), or a read of stdout or stderr failed and run
\* returns a read error with no output and without waiting.
C4_FourOutcomes ==
    pc = "ret" =>
        /\ Cardinality({k \in 1..4 :
              \/ k = 1 /\ RunOutcomeZero /\ inv.waited /\ inv.outEOF /\ inv.errEOF
              \/ k = 2 /\ RunOutcomeNonZero /\ inv.waited /\ inv.outEOF /\ inv.errEOF
              \/ k = 3 /\ RunOutcomeNoLaunch
              \/ k = 4 /\ RunOutcomeReadError}) = 1
        /\ inv.waited => child.status = "exited"

\* run returned the error of a child that exited non-zero after writing to
\* stderr.
C4_Witness ==
    /\ pc = "ret"
    /\ RunOutcomeNonZero
    /\ inv.waited
    /\ inv.res.stderr # <<>>

\* A precondition of the call does not hold.
PreconditionFails ==
    \/ cfg = "missing"
    \/ call.op \in {"Create", "Clone", "Import"} /\ vmState # "absent"
    \/ call.op = "Run" /\ vmState \in {"absent", "running"}

\* C5: a call whose precondition fails returns an error and has spawned no
\* process.
C5_NoSpawnOnPreconditionFailure ==
    (pc = "done" /\ PreconditionFails) => (~ret.ok /\ spawned = 0)

\* The token that follows the k-th "--dir" of argument list a.
DirTokenAt(a, k) ==
    LET idx == {i \in 1..Len(a) : a[i] = "--dir"}
    IN  a[(CHOOSE i \in idx : Cardinality({j \in idx : j < i}) = k - 1) + 1]

\* [name:]path, then ':ro,tag=TAG', ':ro' or ':tag=TAG', or nothing.
TokenNoSync(d) ==
    LET head == IF d.Name = "" THEN d.Path ELSE d.Name \o ":" \o d.Path
    IN  CASE d.ReadOnly /\ d.Tag # "" -> head \o ":ro,tag=" \o d.Tag
          [] d.ReadOnly /\ d.Tag = "" -> head \o ":ro"
          [] ~d.ReadOnly /\ d.Tag # "" -> head \o ":tag=" \o d.Tag
          [] OTHER -> head

SharedMount ==
    [Name |-> "shared", Path |-> "/tmp/x", ReadOnly |-> TRUE, Sync |-> "",
     Tag |-> "t1"]
PathOnlyMount ==
    [Name |-> "", Path |-> "/tmp/x", ReadOnly |-> FALSE, Sync |-> "", Tag |-> ""]

\* C6: for every mount with empty sync mode, the --dir token Run builds is
\* [name:]path with one trailing segment when read-only or a tag is set:
\* 'shared:/tmp/x:ro,tag=t1' for the shared mount, the bare path for a mount
\* with only a path.
C6_DirTokenNoSync ==
    (pc = "built" /\ req.op = "Run") =>
        /\ CountOf(args, "--dir") = Len(req.o.Dir)
        /\ \A k \in 1..Len(req.o.Dir) :
              LET d == req.o.Dir[k]
                  t == DirTokenAt(args, k)
              IN  d.Sync = "" =>
                     /\ t = TokenNoSync(d)
                     /\ d = SharedMount => t = "shared:/tmp/x:ro,tag=t1"
                     /\ d = PathOnlyMount => t = "/tmp/x"

\* Run built the token of the shared read-only mount with a tag.
C6_Witness ==
    /\ pc = "built"
    /\ req.op = "Run"
    /\ req.o.Dir = <<SharedMount>>
    /\ DirTokenAt(args, 1) = "shared:/tmp/x:ro,tag=t1"

\* C7: for every mount with a sync mode, the token ends in ',sync=MODE' after
\* the tag segment when a tag is set, and is the token of the same mount
\* without sync mode when no tag is set.
C7_SyncOnlyWithTag ==
    (pc = "built" /\ req.op = "Run") =>
        \A k \in 1..Len(req.o.Dir) :
            LET d == req.o.Dir[k]
                t == DirTokenAt(args, k)
                plain == TokenNoSync([d EXCEPT !.Sync = ""])
            IN  d.Sync # "" =>
                   t = IF d.Tag # "" THEN plain \o ",sync=" \o d.Sync ELSE plain

\* C8, as claimed: the VM name is the last element of every single-object
\* command's argument list.
C8_NameLast ==
    pc = "built" => args[Len(args)] = req.name

\* C8, amended: Run's list ends with the VM name; every other single-object
\* builder puts the name second, right after the subcommand, so that it is
\* last only when the options add nothing.
C8_NamePosition ==
    pc = "built" =>
        IF req.op = "Run"
        THEN /\ args[1] = "run"
             /\ args[Len(args)] = req.name
             /\ CountOf(args, req.name) = 1
        ELSE /\ args[2] = req.name
             /\ args[Len(args)] = req.name <=> Len(args) = 2

\* Run built a list with options in it, the name last.
C8_Witness ==
    /\ pc = "built"
    /\ req.op = "Run"
    /\ req.o.NoGraphics
    /\ req.o.Disk # <<>>
    /\ args[Len(args)] = req.name

\* t is r without its leading and trailing white space.
TrimmedOf(r, t) ==
    /\ t = <<>> \/ (~IsSpace(t[1]) /\ ~IsSpace(t[Len(t)]))
    /\ \E i \in 0..Len(r), j \in 0..Len(r) :
          /\ i <= j
          /\ SubSeq(r, i + 1, j) = t
          /\ \A k \in (1..i) \cup ((j + 1)..Len(r)) : IsSpace(r[k])

\* C9: IP and GetConfig both return the captured output with the surrounding
\* white space trimmed and nothing else changed.
C9_BothTrimmed ==
    (pc = "done" /\ req.op \in {"IP", "GetConfig"}) => TrimmedOf(raw, txt)

\* C10: cmd.Wait() is called, in run, only after stdout and stderr were both
\* read to end-of-file, and in Run only after the scan ended at end-of-file:
\* at the wait nothing the child wrote is unread.
C10_WaitAfterDrain ==
    /\ (pc = "wait" \/ (pc = "ret" /\ inv.waited)) =>
          /\ inv.outEOF /\ inv.errEOF
          /\ child.outClosed /\ child.errClosed
          /\ outPipe = <<>> /\ errPipe = <<>>
          /\ inv.out = AllOut(child)
          /\ inv.err = AllErr(child)
    /\ (pc = "wwait" \/ (call.op = "Run" /\ inv.waited)) =>
          /\ inv.outEOF
          /\ child.outClosed
          /\ outPipe = <<>> /\ rbuf = <<>>

\* run is at cmd.Wait() with output captured from both streams.
C10_Witness ==
    /\ pc = "wait"
    /\ inv.out # <<>>
    /\ inv.err # <<>>

\* ------------------------------------------------------------------- C11

\* Both Run calls have returned.
RaceOver == \A c \in Callers : race.by[c].pc = "done"

\* The callers that have started a `tart run` child.
RaceRan == {c \in Callers : race.by[c].ran}

\* C11: of two interleaved Run calls on the same existing, stopped VM, with the
\* listing reporting the VM as running from the moment a `tart run` child has
\* been started, at most one starts a `tart run` child, and once one has, the
\* other, if its listing succeeded, returns the "VM is already running" error.
C11_AtMostOneRun ==
    race.vm0 = "stopped" =>
        /\ Cardinality(RaceRan) <= 1
        /\ \A c \in RaceRan : \A d \in Callers \ {c} :
              (/\ race.by[d].pc = "done"
               /\ race.by[d].ret.err \notin {"launch", "exit", "decode"})
                  => race.by[d].ret.err = "running"

\* The check at work when the calls do not overlap: one call has started the
\* VM and the other, listing afterwards, is refused.
C11_Witness ==
    /\ race.vm0 = "stopped"
    /\ RaceOver
    /\ \E c \in Callers : \E d \in Callers \ {c} :
          /\ race.by[c].ran /\ race.by[c].ret.ok
          /\ ~race.by[d].ran /\ race.by[d].ret.err = "running"

====
